---- MODULE Spec2Model ----
(***************************************************************************)
(* Model of scripts/(1)debug_meeting_organizer.py: the date extractor      *)
(* (parse_date), the meeting-start classifier (is_meeting_start_page) and  *)
(* the sequential organizer (organize_files) of                            *)
(* DebugMeetingMinutesOrganizer.                                           *)
(*                                                                         *)
(* Texts are TLA+ strings; the regular expressions of date_patterns are    *)
(* sequences of quantified character classes that a backtracking matcher   *)
(* runs character by character, as Python's re.search does.                *)
(***************************************************************************)
EXTENDS Integers, Sequences, FiniteSets, TLC

(***************************************************************************)
(* Characters and the str methods the code uses.                           *)
(***************************************************************************)
UpperLetters == "ABCDEFGHIJKLMNOPQRSTUVWXYZ"
LowerLetters == "abcdefghijklmnopqrstuvwxyz"
Digits == "0123456789"

CharAt(s, k) == SubSeq(s, k, k)

CharsOf(s) == {CharAt(s, k) : k \in 1..Len(s)}

UpperSet == CharsOf(UpperLetters)
LowerSet == CharsOf(LowerLetters)
DigitSet == CharsOf(Digits)
SpaceSet == {" ", "\n", "\t"}

\* position of character c in the alphabet string s (0 when absent)
IndexIn(s, c) ==
  IF \E k \in 1..Len(s) : CharAt(s, k) = c
    THEN CHOOSE k \in 1..Len(s) : CharAt(s, k) = c
    ELSE 0

\* str.upper() on one character
UpperChar(c) ==
  IF c \in LowerSet THEN CharAt(UpperLetters, IndexIn(LowerLetters, c)) ELSE c

RECURSIVE upper(_)
\* str.upper()
upper(s) ==
  IF Len(s) = 0 THEN ""
  ELSE UpperChar(CharAt(s, 1)) \o upper(SubSeq(s, 2, Len(s)))

\* str.isalpha(): non-empty and every character a letter
isalpha(s) ==
  /\ Len(s) > 0
  /\ \A k \in 1..Len(s) : CharAt(s, k) \in (UpperSet \cup LowerSet)

RECURSIVE int(_)
\* int() of a string of decimal digits
int(s) ==
  IF Len(s) = 0 THEN 0
  ELSE 10 * int(SubSeq(s, 1, Len(s) - 1)) + (IndexIn(Digits, CharAt(s, Len(s))) - 1)

\* the "in" operator on strings: sub occurs in s
Contains(s, sub) ==
  \E k \in 1..(Len(s) - Len(sub) + 1) : SubSeq(s, k, k + Len(sub) - 1) = sub

(***************************************************************************)
(* Regular expressions.  A pattern is a sequence of items; an item is a    *)
(* character class with a repetition range, greedy or lazy, and the number *)
(* of the capture group it lies in (0: none).  max = -1 is "no upper       *)
(* limit".                                                                 *)
(***************************************************************************)
ClassHas(cls, c) ==
  CASE cls = "[A-Z]" -> c \in UpperSet
    [] cls = "[a-z]" -> c \in LowerSet
    [] cls = "\\d"   -> c \in DigitSet
    [] cls = "\\s"   -> c \in SpaceSet
    [] cls = "."     -> c # "\n"
    [] OTHER         -> c = cls

Item(cls, min, max, lazy, grp) ==
  [cls |-> cls, min |-> min, max |-> max, lazy |-> lazy, grp |-> grp]

RECURSIVE Lit(_)
\* a literal word: one item per character
Lit(s) ==
  IF Len(s) = 0 THEN <<>>
  ELSE <<Item(CharAt(s, 1), 1, 1, FALSE, 0)>> \o Lit(SubSeq(s, 2, Len(s)))

Plus(cls, grp)   == <<Item(cls, 1, -1, FALSE, grp)>>
One(cls, grp)    == <<Item(cls, 1, 1, FALSE, grp)>>
Rep(cls, lo, hi, grp) == <<Item(cls, lo, hi, FALSE, grp)>>
Opt(cls)         == <<Item(cls, 0, 1, FALSE, 0)>>
LazyStar(cls)    == <<Item(cls, 0, -1, TRUE, 0)>>

RECURSIVE RunLen(_, _, _, _)
\* how many characters of text from pos on are in cls, at most cap (-1: any)
RunLen(text, pos, cls, cap) ==
  IF cap = 0 \/ pos > Len(text) \/ ~ClassHas(cls, CharAt(text, pos)) THEN 0
  ELSE 1 + RunLen(text, pos + 1, cls, IF cap = -1 THEN -1 ELSE cap - 1)

NoMatch == <<>>

RECURSIVE MatchAt(_, _, _, _)
RECURSIVE TryCount(_, _, _, _, _, _)
\* Match items k.. of pat at pos: the start position of every item k..
\* followed by the end of the match, or NoMatch.
MatchAt(pat, k, text, pos) ==
  IF k > Len(pat) THEN <<pos>>
  ELSE LET it == pat[k]
           most == RunLen(text, pos, it.cls, it.max)
       IN IF most < it.min THEN NoMatch
          ELSE TryCount(pat, k, text, pos, IF it.lazy THEN it.min ELSE most, most)

\* try item k with n repetitions, then fewer (greedy) or more (lazy)
TryCount(pat, k, text, pos, n, most) ==
  LET it == pat[k]
      rest == MatchAt(pat, k + 1, text, pos + n)
  IN IF rest # NoMatch THEN <<pos>> \o rest
     ELSE IF it.lazy
       THEN IF n + 1 > most THEN NoMatch
            ELSE TryCount(pat, k, text, pos, n + 1, most)
       ELSE IF n - 1 < it.min THEN NoMatch
            ELSE TryCount(pat, k, text, pos, n - 1, most)

RECURSIVE SearchFrom(_, _, _)
\* re.search: the match at the leftmost start position, or NoMatch
SearchFrom(pat, text, start) ==
  IF start > Len(text) + 1 THEN NoMatch
  ELSE LET m == MatchAt(pat, 1, text, start)
       IN IF m # NoMatch THEN m ELSE SearchFrom(pat, text, start + 1)

\* m[k] is where item k starts and m[k+1] where it ends
GroupText(pat, text, m, g) ==
  LET ks == {k \in 1..Len(pat) : pat[k].grp = g}
      first == CHOOSE k \in ks : \A j \in ks : k <= j
      last  == CHOOSE k \in ks : \A j \in ks : k >= j
  IN SubSeq(text, m[first], m[last + 1] - 1)

\* Match.groups() for the three groups every pattern has
Groups(pat, text, m) == [g \in 1..3 |-> GroupText(pat, text, m, g)]

(***************************************************************************)
(* __init__: date_patterns and month_names.                                *)
(***************************************************************************)
\* ([A-Z]+)\s+(\d{1,2}),?\s+
MonthDay == Plus("[A-Z]", 1) \o Plus("\\s", 0) \o Rep("\\d", 1, 2, 2)
            \o Opt(",") \o Plus("\\s", 0)
\* (19\d{2})
Year19 == <<Item("1", 1, 1, FALSE, 3), Item("9", 1, 1, FALSE, 3)>>
          \o Rep("\\d", 2, 2, 3)

date_patterns == <<
  \* MEETING\s+OF\s+([A-Z]+)\s+(\d{1,2}),?\s+(\d{4})
  Lit("MEETING") \o Plus("\\s", 0) \o Lit("OF") \o Plus("\\s", 0)
    \o MonthDay \o Rep("\\d", 4, 4, 3),
  \* ([A-Z][a-z]+)\s+(\d{1,2}),?\s+(\d{4})
  One("[A-Z]", 1) \o Plus("[a-z]", 1) \o Plus("\\s", 0) \o Rep("\\d", 1, 2, 2)
    \o Opt(",") \o Plus("\\s", 0) \o Rep("\\d", 4, 4, 3),
  \* ([A-Z]+)\s+(\d{1,2}),?\s+(\d{4})
  MonthDay \o Rep("\\d", 4, 4, 3),
  \* (\d{1,2})\s+([A-Z][a-z]+)\s+(\d{4})
  Rep("\\d", 1, 2, 1) \o Plus("\\s", 0) \o One("[A-Z]", 2) \o Plus("[a-z]", 2)
    \o Plus("\\s", 0) \o Rep("\\d", 4, 4, 3),
  \* (\d{1,2})/(\d{1,2})/(\d{4})
  Rep("\\d", 1, 2, 1) \o Lit("/") \o Rep("\\d", 1, 2, 2) \o Lit("/")
    \o Rep("\\d", 4, 4, 3),
  \* (\d{4})-(\d{1,2})-(\d{1,2})
  Rep("\\d", 4, 4, 1) \o Lit("-") \o Rep("\\d", 1, 2, 2) \o Lit("-")
    \o Rep("\\d", 1, 2, 3),
  \* MEETING.*?([A-Z]+)\s+(\d{1,2}),?\s+(19\d{2})
  Lit("MEETING") \o LazyStar(".") \o MonthDay \o Year19,
  \* BOARD.*?EDUCATION.*?([A-Z]+)\s+(\d{1,2}),?\s+(19\d{2})
  Lit("BOARD") \o LazyStar(".") \o Lit("EDUCATION") \o LazyStar(".")
    \o MonthDay \o Year19 >>

None == <<>>

\* the month_names dict
month_names ==
  [JANUARY |-> 1, JAN |-> 1,
   FEBRUARY |-> 2, FEB |-> 2,
   MARCH |-> 3, MAR |-> 3,
   APRIL |-> 4, APR |-> 4,
   MAY |-> 5,
   JUNE |-> 6, JUN |-> 6,
   JULY |-> 7, JUL |-> 7,
   AUGUST |-> 8, AUG |-> 8,
   SEPTEMBER |-> 9, SEP |-> 9, SEPT |-> 9,
   OCTOBER |-> 10, OCT |-> 10,
   NOVEMBER |-> 11, NOV |-> 11,
   DECEMBER |-> 12, DEC |-> 12]

(***************************************************************************)
(* datetime(year, month, day): a date <<year, month, day>>; raises         *)
(* ValueError when the day does not exist.  An exception that leaves an    *)
(* operator is the value it returns.                                       *)
(***************************************************************************)
ValueError == <<"ValueError">>

IsLeap(year) == year % 4 = 0 /\ (year % 100 # 0 \/ year % 400 = 0)

DaysInMonth(year, month) ==
  CASE month \in {4, 6, 9, 11} -> 30
    [] month = 2 -> IF IsLeap(year) THEN 29 ELSE 28
    [] OTHER -> 31

\* datetime, wrong: any day up to 31 exists in every month
datetime_AnyDay(year, month, day) ==
  IF /\ 1 <= year /\ year <= 9999
     /\ 1 <= month /\ month <= 12
     /\ 1 <= day /\ day <= 31
    THEN <<year, month, day>>
    ELSE ValueError

datetime(year, month, day) ==
  IF /\ 1 <= year /\ year <= 9999
     /\ 1 <= month /\ month <= 12
     /\ 1 <= day /\ day <= DaysInMonth(year, month)
    THEN <<year, month, day>>
    ELSE ValueError

(***************************************************************************)
(* parse_date                                                              *)
(***************************************************************************)
\* TryPattern, wrong: no bound on the year
TryPattern_NoYearBound(n, text) ==
  LET pat == date_patterns[n]
      matches == SearchFrom(pat, text, 1)
  IN IF matches = NoMatch THEN None
     ELSE LET groups == Groups(pat, text, matches)
              monthFirst == isalpha(groups[1])
              dayFirst == ~monthFirst /\ isalpha(groups[2])
              month_str == IF monthFirst THEN groups[1] ELSE groups[2]
              month == IF monthFirst \/ dayFirst THEN month_names[month_str]
                       ELSE int(groups[1])
              day == IF monthFirst THEN int(groups[2])
                     ELSE IF dayFirst THEN int(groups[1])
                     ELSE int(groups[2])
              year == int(groups[3])
          IN IF (monthFirst \/ dayFirst) /\ month_str \notin DOMAIN month_names
               THEN None
             ELSE IF /\ 1 <= month /\ month <= 12
                     /\ 1 <= day /\ day <= 31
               THEN IF datetime(year, month, day) = ValueError
                      THEN None
                      ELSE datetime(year, month, day)
               ELSE None

\* TryPattern, wrong: a numeric match whose first number is no month is read
\* day first
TryPattern_DayFirst(n, text) ==
  LET pat == date_patterns[n]
      matches == SearchFrom(pat, text, 1)
  IN IF matches = NoMatch THEN None
     ELSE LET groups == Groups(pat, text, matches)
              monthFirst == isalpha(groups[1])
              dayFirst == ~monthFirst /\ isalpha(groups[2])
              swapped == ~monthFirst /\ ~dayFirst /\ int(groups[1]) > 12
              month_str == IF monthFirst THEN groups[1] ELSE groups[2]
              month == IF monthFirst \/ dayFirst THEN month_names[month_str]
                       ELSE IF swapped THEN int(groups[2])
                       ELSE int(groups[1])
              day == IF monthFirst THEN int(groups[2])
                     ELSE IF dayFirst \/ swapped THEN int(groups[1])
                     ELSE int(groups[2])
              year == int(groups[3])
          IN IF (monthFirst \/ dayFirst) /\ month_str \notin DOMAIN month_names
               THEN None
             ELSE IF /\ 1 <= month /\ month <= 12
                     /\ 1 <= day /\ day <= 31
                     /\ 1900 <= year /\ year <= 2100
               THEN IF datetime(year, month, day) = ValueError
                      THEN None
                      ELSE datetime(year, month, day)
               ELSE None

\* TryPattern, wrong: no except clause, the ValueError of datetime leaves
\* parse_date
TryPattern_NoExcept(n, text) ==
  LET pat == date_patterns[n]
      matches == SearchFrom(pat, text, 1)
  IN IF matches = NoMatch THEN None
     ELSE LET groups == Groups(pat, text, matches)
              monthFirst == isalpha(groups[1])
              dayFirst == ~monthFirst /\ isalpha(groups[2])
              month_str == IF monthFirst THEN groups[1] ELSE groups[2]
              month == IF monthFirst \/ dayFirst THEN month_names[month_str]
                       ELSE int(groups[1])
              day == IF monthFirst THEN int(groups[2])
                     ELSE IF dayFirst THEN int(groups[1])
                     ELSE int(groups[2])
              year == int(groups[3])
          IN IF (monthFirst \/ dayFirst) /\ month_str \notin DOMAIN month_names
               THEN None
             ELSE IF /\ 1 <= month /\ month <= 12
                     /\ 1 <= day /\ day <= 31
                     /\ 1900 <= year /\ year <= 2100
               THEN datetime(year, month, day)
               ELSE None

\* TryPattern, wrong: when the leftmost match of the pattern gives no date
\* the later matches of the same pattern are examined
TryPattern_LaterMatches(n, text) ==
  LET pat == date_patterns[n]
      DateOf(matches) ==
        IF matches = NoMatch THEN None
        ELSE LET groups == Groups(pat, text, matches)
                 monthFirst == isalpha(groups[1])
                 dayFirst == ~monthFirst /\ isalpha(groups[2])
                 month_str == IF monthFirst THEN groups[1] ELSE groups[2]
                 month == IF monthFirst \/ dayFirst THEN month_names[month_str]
                          ELSE int(groups[1])
                 day == IF monthFirst THEN int(groups[2])
                        ELSE IF dayFirst THEN int(groups[1])
                        ELSE int(groups[2])
                 year == int(groups[3])
             IN IF (monthFirst \/ dayFirst) /\ month_str \notin DOMAIN month_names
                  THEN None
                ELSE IF /\ 1 <= month /\ month <= 12
                        /\ 1 <= day /\ day <= 31
                        /\ 1900 <= year /\ year <= 2100
                        /\ datetime(year, month, day) # ValueError
                  THEN datetime(year, month, day)
                  ELSE None
      starts == {k \in 1..(Len(text) + 1) : DateOf(SearchFrom(pat, text, k)) # None}
  IN IF starts = {} THEN None
     ELSE DateOf(SearchFrom(pat, text, CHOOSE k \in starts : \A j \in starts : k <= j))

\* The body of the loop for pattern n (i in the code, counted from 1): the
\* date this pattern returns, or None when the loop goes on to the next
\* pattern (no match, unknown month name, values out of bounds, ValueError
\* from datetime caught by the except clause).
TryPattern(n, text) ==
  LET pat == date_patterns[n]
      matches == SearchFrom(pat, text, 1)
  IN IF matches = NoMatch THEN None
     ELSE LET groups == Groups(pat, text, matches)
              monthFirst == isalpha(groups[1])
              dayFirst == ~monthFirst /\ isalpha(groups[2])
              month_str == IF monthFirst THEN groups[1] ELSE groups[2]
              month == IF monthFirst \/ dayFirst THEN month_names[month_str]
                       ELSE int(groups[1])
              day == IF monthFirst THEN int(groups[2])
                     ELSE IF dayFirst THEN int(groups[1])
                     ELSE int(groups[2])
              year == int(groups[3])
          IN IF (monthFirst \/ dayFirst) /\ month_str \notin DOMAIN month_names
               THEN None
             ELSE IF /\ 1 <= month /\ month <= 12
                     /\ 1 <= day /\ day <= 31
                     /\ 1900 <= year /\ year <= 2100
               THEN IF datetime(year, month, day) = ValueError
                      THEN None
                      ELSE datetime(year, month, day)
               ELSE None

\* ParseFrom, wrong: the generic patterns are tried before pattern n, as if
\* the MEETING OF header pattern stood last in date_patterns
ParseFrom_HeaderLast(n, text) ==
  LET valid == {m \in (n + 1)..Len(date_patterns) : TryPattern(m, text) # None}
  IN IF valid = {} THEN TryPattern(n, text)
     ELSE TryPattern(CHOOSE m \in valid : \A k \in valid : m <= k, text)

RECURSIVE ParseFrom(_, _)
\* the for loop over date_patterns from pattern n on
ParseFrom(n, text) ==
  IF n > Len(date_patterns) THEN None
  ELSE LET d == TryPattern(n, text)
       IN IF d # None THEN d ELSE ParseFrom(n + 1, text)

parse_date(text) == ParseFrom(1, text)

\* one decimal digit as a character
DigitChar(n) == CharAt(Digits, n + 1)

\* an integer as exactly w decimal digits, zero padded
RECURSIVE Padded(_, _)
Padded(n, w) ==
  IF w = 0 THEN "" ELSE Padded(n \div 10, w - 1) \o DigitChar(n % 10)

\* get_folder_name: strftime("%Y-%m-%d")
get_folder_name(date_obj) ==
  Padded(date_obj[1], 4) \o "-" \o Padded(date_obj[2], 2) \o "-"
    \o Padded(date_obj[3], 2)

(***************************************************************************)
(* is_meeting_start_page                                                   *)
(***************************************************************************)
meeting_indicators == <<
  "MEETING OF",
  "THE BOARD OF EDUCATION",
  "OKLAHOMA CITY, OKLAHOMA",
  "MET IN REGULAR SESSION",
  "MET IN ADJOURNED SESSION",
  "BOARD OF EDUCATION",
  "OKLAHOMA CITY" >>

RECURSIVE CountFrom(_, _)
\* sum(1 for indicator in meeting_indicators if indicator in text)
CountFrom(k, text) ==
  IF k > Len(meeting_indicators) THEN 0
  ELSE (IF Contains(text, meeting_indicators[k]) THEN 1 ELSE 0)
       + CountFrom(k + 1, text)

indicator_count(text) == CountFrom(1, text)

\* is_meeting_start_page, wrong: one indicator is enough
is_meeting_start_page_OneIndicator(text) ==
  indicator_count(text) >= 1

\* is_meeting_start_page, wrong: a page without text counts as a meeting
\* start
is_meeting_start_page_EmptyStart(text) ==
  LET has_date == parse_date(text) # None
  IN \/ text = ""
     \/ indicator_count(text) >= 2
     \/ (has_date /\ indicator_count(text) >= 1)

is_meeting_start_page(text) ==
  LET has_date == parse_date(text) # None
  IN indicator_count(text) >= 2 \/ (has_date /\ indicator_count(text) >= 1)

(***************************************************************************)
(* Texts for parse_date called on its own: a date written out in one of    *)
(* the forms the patterns of date_patterns are written for, and some       *)
(* literal texts.                                                          *)
(***************************************************************************)
MonthFull == <<"January", "February", "March", "April", "May", "June", "July",
               "August", "September", "October", "November", "December">>

MonthAbbr == <<"Jan", "Feb", "Mar", "Apr", "May", "Jun", "Jul", "Aug", "Sep",
               "Oct", "Nov", "Dec">>

\* str.lower() on one character
LowerChar(c) ==
  IF c \in UpperSet THEN CharAt(LowerLetters, IndexIn(UpperLetters, c)) ELSE c

RECURSIVE lower(_)
\* str.lower()
lower(s) ==
  IF Len(s) = 0 THEN ""
  ELSE LowerChar(CharAt(s, 1)) \o lower(SubSeq(s, 2, Len(s)))

RECURSIVE Decimal(_)
\* str() of a natural number
Decimal(n) ==
  IF n < 10 THEN DigitChar(n) ELSE Decimal(n \div 10) \o DigitChar(n % 10)

\* a month name in one of the ways of writing it
Cased(name, case) ==
  CASE case = "upper" -> upper(name)
    [] case = "lower" -> lower(name)
    [] OTHER -> name

\* the forms with a month name, by the way the name is written
NameForms == {[order |-> o, abbr |-> a, case |-> c] :
                o \in {"MDY", "DMY"}, a \in BOOLEAN,
                c \in {"upper", "lower", "capitalised"}}

\* "Month Day, Year", in upper case as the OCR step hands it on, and
\* capitalised
MonthDayYear == [order |-> "MDY", abbr |-> FALSE, case |-> "upper"]
MonthDayYearCap == [order |-> "MDY", abbr |-> FALSE, case |-> "capitalised"]

\* the numeric forms a/b/YYYY and YYYY-MM-DD
Slashed == [order |-> "a/b/Y", abbr |-> FALSE, case |-> "none"]
Dashed == [order |-> "Y-M-D", abbr |-> FALSE, case |-> "none"]

\* no form: a literal text
Literal == [order |-> "literal", abbr |-> FALSE, case |-> "none"]

\* the date year, month, day written in a form
Format(form, year, month, day) ==
  CASE form.order = "MDY" ->
         Cased(IF form.abbr THEN MonthAbbr[month] ELSE MonthFull[month], form.case)
           \o " " \o Decimal(day) \o ", " \o Decimal(year)
    [] form.order = "DMY" ->
         Decimal(day) \o " "
           \o Cased(IF form.abbr THEN MonthAbbr[month] ELSE MonthFull[month], form.case)
           \o " " \o Decimal(year)
    [] form.order = "a/b/Y" ->
         Decimal(month) \o "/" \o Decimal(day) \o "/" \o Decimal(year)
    [] form.order = "Y-M-D" ->
         Padded(year, 4) \o "-" \o Padded(month, 2) \o "-" \o Padded(day, 2)

\* the days, months and years written out: the bounds of parse_date, the
\* values next to them, the ends of the months
DaySample == {0, 1, 5, 12, 28, 29, 30, 31, 32}
MonthSample == {0, 1, 2, 5, 12, 13, 25}
YearSample == {1899, 1900, 1971, 1972, 2100, 2101}

LiteralTexts == {
  "",
  "continued discussion of budget",
  "PAGE 3 1971",
  "PAGE 3 1971 REVISED 1/5/1971",
  "FEBRUARY 30, 1971 REVISED 1/5/1971",
  "MEETING OF MAY 5, 2101 BOARD OF EDUCATION JUNE 7, 1971",
  "13/5/1971 AND 25/12/1971",
  "125/12/1971",
  "JANUARY 5, 1971 AND FEBRUARY 2, 1971",
  "MAY 32, 1971 AND MAY 3, 1971",
  "PAGE 3 1971 JANUARY 5, 1971",
  "MAY 32, 1971 AND MAY 5, 1971",
  "13/5/1971 AND 1/5/1971" }

Written(form, year, month, day) ==
  [form |-> form, year |-> year, month |-> month, day |-> day,
   text |-> Format(form, year, month, day)]

\* what parse_date is called on
DateInputs ==
  {Written(f, y, m, d) : f \in {MonthDayYear, MonthDayYearCap},
                         y \in YearSample, m \in 1..12, d \in DaySample}
    \cup {Written(f, 1971, m, d) : f \in NameForms, m \in 1..12, d \in {5, 30}}
    \cup {Written(f, y, m, d) : f \in {Slashed, Dashed},
                                y \in YearSample, m \in MonthSample, d \in DaySample}
    \cup {[form |-> Literal, year |-> 0, month |-> 0, day |-> 0, text |-> t] :
            t \in LiteralTexts}

\* parse_date has not been called
NoCall == [form |-> Literal, year |-> 0, month |-> 0, day |-> 0,
           text |-> "", date |-> None, called |-> FALSE]

(***************************************************************************)
(* The organizer.  A page is an image file of the source folder: what the  *)
(* OCR engine reads from it (before upper-casing), and whether it can be   *)
(* read at all.  Pages are named by their position in the sorted file      *)
(* list.                                                                   *)
(***************************************************************************)
MaxPages == 3
MaxRuns == 2

OcrTexts == {
  "MEETING OF JANUARY 5, 1971 BOARD OF EDUCATION OKLAHOMA CITY",
  "continued discussion of budget",
  "MEETING OF FEBRUARY 2, 1971 BOARD OF EDUCATION OKLAHOMA CITY",
  "THE BOARD OF EDUCATION MET IN REGULAR SESSION",
  "MET IN ADJOURNED SESSION",
  "JANUARY 5, 1971 MEETING OF MARCH 3, 1971 REVISED 4/5/1971",
  "MARCH 3, 1971 MINUTES APPROVED" }

Pages == {[ocr |-> t, readable |-> TRUE] : t \in OcrTexts}
           \cup {[ocr |-> "", readable |-> FALSE]}

\* the pages of the folders that are listed by glob: one phrase of
\* meeting_indicators each, a dated meeting start, a page of running text
FolderPages ==
  {[ocr |-> meeting_indicators[k], readable |-> TRUE] :
     k \in 1..Len(meeting_indicators)}
    \cup {[ocr |-> "MEETING OF JANUARY 5, 1971 BOARD OF EDUCATION OKLAHOMA CITY",
           readable |-> TRUE],
          [ocr |-> "continued discussion of budget", readable |-> TRUE]}

RECURSIVE SeqsUpTo(_, _)
\* the sequences over S of length at most n
SeqsUpTo(S, n) ==
  IF n = 0 THEN {<<>>}
  ELSE LET shorter == SeqsUpTo(S, n - 1)
       IN shorter \cup {Append(q, e) : q \in {r \in shorter : Len(r) = n - 1}, e \in S}

\* extract_text_from_image: the OCR text in upper case, "" when the image
\* cannot be opened or no OCR configuration gives text
extract_text_from_image(page) ==
  IF page.readable THEN upper(page.ocr) ELSE ""

\* What the loop body computes from a page before it touches any state:
\* the text, the classification and the date of the text, tabulated once
\* over the pages.
PageTable ==
  {LET text == extract_text_from_image(p)
   IN [page |-> p, text |-> text,
       count |-> indicator_count(text),
       start |-> is_meeting_start_page(text),
       date |-> parse_date(text)] : p \in Pages \cup FolderPages}

Row(page) == CHOOSE r \in PageTable : r.page = page

NoFolder == "None"
Unassigned == "unassigned"
DebugFolder == "debug_ocr_output"
DebugFiles == 10

\* what can go wrong on one page: nothing, the mkdir of a folder, the write
\* of the debug file, the copy before or after the file has been written
Faults == {"none", "mkdir", "debug", "copy", "copystat"}

\* the batch PDF OCR: the most PDF files of the base folder
MaxPdfs == 3

\* the default of FixedBatchPDFOCR.__init__
max_workers == 2

Workers == 1..max_workers

\* a thread that is not inside the statement self.stats[key] += 1
Idle == [at |-> "idle", key |-> "failed", tmp |-> 0]

\* the batch PDF OCR after __init__, process_all_pdfs not yet called
NoOcr ==
  [mode |-> "none", at |-> "idle", interrupted |-> FALSE,
   stats |-> [total_found |-> 0, already_ocr |-> 0, processed |-> 0,
              failed |-> 0, skipped |-> 0],
   next |-> 0, raised |-> 0,
   thread |-> [w \in Workers |-> Idle], main |-> Idle]

VARIABLES
  image_files,            \* the sorted image files of the source folder
  debug_mode,             \* self.debug_mode
  current_meeting_folder, \* self.current_meeting_folder (a folder name)
  current_meeting_date,   \* self.current_meeting_date
  dirs,                   \* the folders that exist in the output folder
  files,                  \* <<folder, name>>: a file of that name is in folder
  pc,                     \* "idle", or "running" inside organize_files
  n_files,                \* len(image_files) after the max_files cut
  i,                      \* pages visited so far in this run
  meeting_starts_found,
  is_meeting_start,       \* the locals of the page visited last
  parsed_date,
  placed,                 \* per page of this run: the folder it was copied to
  prev_placed,            \* placed of the run before this one
  runs,                   \* calls of organize_files so far
  call,                   \* parse_date called on its own: text and result
  names,                  \* the sort keys (file names) of image_files
  ocr                     \* the batch PDF OCR: counters, queue and threads

vars == <<image_files, debug_mode, current_meeting_folder, current_meeting_date,
          dirs, files, pc, n_files, i, meeting_starts_found, is_meeting_start,
          parsed_date, placed, prev_placed, runs, call, names, ocr>>

\* __init__ on an empty output folder
Constructed ==
  /\ debug_mode \in BOOLEAN
  /\ current_meeting_folder = NoFolder
  /\ current_meeting_date = None
  /\ dirs = IF debug_mode THEN {DebugFolder} ELSE {}
  /\ files = {}
  /\ pc = "idle"
  /\ n_files = 0
  /\ i = 0
  /\ meeting_starts_found = 0
  /\ is_meeting_start = FALSE
  /\ parsed_date = None
  /\ placed = <<>>
  /\ prev_placed = <<>>
  /\ runs = 0
  /\ call = NoCall
  /\ ocr = NoOcr

\* a source folder whose files glob lists once each, and a new organizer
Init ==
  /\ image_files \in SeqsUpTo(Pages, MaxPages)
  /\ names = [k \in 1..Len(image_files) |-> k]
  /\ Constructed

\* __init__ of another organizer on the same folders
Construct ==
  /\ pc = "idle"
  /\ runs > 0
  /\ runs < MaxRuns
  /\ current_meeting_folder # NoFolder
  /\ current_meeting_folder' = NoFolder
  /\ current_meeting_date' = None
  /\ dirs' = IF debug_mode THEN dirs \cup {DebugFolder} ELSE dirs
  /\ UNCHANGED <<image_files, debug_mode, files, pc, n_files, i,
                 meeting_starts_found, is_meeting_start, parsed_date, placed,
                 prev_placed, runs, call, names, ocr>>

\* organize_files up to the loop: list, sort and cut the files.
\* max_files = 0 stands for None as well: both are false in "if max_files"
StartRun(max_files) ==
  /\ pc = "idle"
  /\ runs < MaxRuns
  /\ pc' = "running"
  /\ n_files' = IF max_files # 0 /\ max_files < Len(image_files)
                  THEN max_files ELSE Len(image_files)
  /\ i' = 0
  /\ meeting_starts_found' = 0
  /\ placed' = <<>>
  /\ prev_placed' = placed
  /\ runs' = runs + 1
  /\ UNCHANGED <<image_files, debug_mode, current_meeting_folder,
                 current_meeting_date, dirs, files, is_meeting_start,
                 parsed_date, call, names, ocr>>

\* OpenMeeting, wrong: a dated start opens a meeting only while none is open
OpenMeeting_OnlyFirst(fault, start, date) ==
  IF ~(start /\ date # None) \/ current_meeting_folder # NoFolder
    THEN [folder |-> current_meeting_folder, date |-> current_meeting_date,
          dirs |-> dirs, found |-> meeting_starts_found, raised |-> FALSE]
  ELSE [folder |-> get_folder_name(date), date |-> date,
        dirs |-> dirs \cup {get_folder_name(date)},
        found |-> meeting_starts_found + 1, raised |-> FALSE]

\* OpenMeeting, wrong: a start without a date closes the open meeting
OpenMeeting_UndatedCloses(fault, start, date) ==
  IF start /\ date = None
    THEN [folder |-> NoFolder, date |-> None,
          dirs |-> dirs, found |-> meeting_starts_found, raised |-> FALSE]
  ELSE IF ~start
    THEN [folder |-> current_meeting_folder, date |-> current_meeting_date,
          dirs |-> dirs, found |-> meeting_starts_found, raised |-> FALSE]
  ELSE [folder |-> get_folder_name(date), date |-> date,
        dirs |-> dirs \cup {get_folder_name(date)},
        found |-> meeting_starts_found + 1, raised |-> FALSE]

\* OpenMeeting, wrong: a date whose folder exists already gets a second
\* folder
OpenMeeting_FolderPerRun(fault, start, date) ==
  IF ~(start /\ date # None)
    THEN [folder |-> current_meeting_folder, date |-> current_meeting_date,
          dirs |-> dirs, found |-> meeting_starts_found, raised |-> FALSE]
  ELSE LET name == IF get_folder_name(date) \in dirs
                        /\ get_folder_name(date) # current_meeting_folder
                     THEN get_folder_name(date) \o "_2"
                     ELSE get_folder_name(date)
       IN [folder |-> name, date |-> date, dirs |-> dirs \cup {name},
           found |-> meeting_starts_found + 1, raised |-> FALSE]

\* OpenMeeting, wrong: the last page of the run does not open a meeting
OpenMeeting_NeedsNextPage(fault, start, date) ==
  IF ~(start /\ date # None) \/ i + 1 = n_files
    THEN [folder |-> current_meeting_folder, date |-> current_meeting_date,
          dirs |-> dirs, found |-> meeting_starts_found, raised |-> FALSE]
  ELSE [folder |-> get_folder_name(date), date |-> date,
        dirs |-> dirs \cup {get_folder_name(date)},
        found |-> meeting_starts_found + 1, raised |-> FALSE]

\* OpenMeeting, wrong: only the first meeting start found in a run opens a
\* meeting
OpenMeeting_FirstStartOnly(fault, start, date) ==
  IF ~(start /\ date # None) \/ meeting_starts_found > 0
    THEN [folder |-> current_meeting_folder, date |-> current_meeting_date,
          dirs |-> dirs, found |-> meeting_starts_found, raised |-> FALSE]
  ELSE [folder |-> get_folder_name(date), date |-> date,
        dirs |-> dirs \cup {get_folder_name(date)},
        found |-> meeting_starts_found + 1, raised |-> FALSE]

\* Lines 290-306, for a page classified start with the date it gives: the
\* open meeting, the folders and the counter after them, and whether mkdir
\* raised.  current_meeting_folder is assigned before mkdir runs,
\* current_meeting_date and the counter after it.
OpenMeeting(fault, start, date) ==
  IF ~(start /\ date # None)
    THEN [folder |-> current_meeting_folder, date |-> current_meeting_date,
          dirs |-> dirs, found |-> meeting_starts_found, raised |-> FALSE]
  ELSE IF fault = "mkdir"
    THEN [folder |-> get_folder_name(date), date |-> current_meeting_date,
          dirs |-> dirs, found |-> meeting_starts_found, raised |-> TRUE]
  ELSE [folder |-> get_folder_name(date), date |-> date,
        dirs |-> dirs \cup {get_folder_name(date)},
        found |-> meeting_starts_found + 1, raised |-> FALSE]

\* Lines 308-310: save_debug_info raises
SaveDebugRaises(fault) ==
  debug_mode /\ i < DebugFiles /\ fault = "debug"

\* CopyPage, wrong: a page with no open meeting is copied nowhere
CopyPage_NoUnassigned(fault, folder, dirs0) ==
  IF folder # NoFolder
    THEN IF fault = "copy" \/ folder \notin dirs0
           THEN [to |-> NoFolder, dirs |-> dirs0, raised |-> TRUE]
           ELSE [to |-> folder, dirs |-> dirs0, raised |-> fault = "copystat"]
  ELSE [to |-> NoFolder, dirs |-> dirs0, raised |-> fault # "none"]

\* Lines 312-323: the folder the page is copied to (NoFolder when it is not
\* written), the folders after the copy, and whether the copy raised.
\* copy2 writes the file and then its metadata; it raises when the folder
\* does not exist.
CopyPage(fault, folder, dirs0) ==
  IF folder # NoFolder
    THEN IF fault = "copy" \/ folder \notin dirs0
           THEN [to |-> NoFolder, dirs |-> dirs0, raised |-> TRUE]
           ELSE [to |-> folder, dirs |-> dirs0, raised |-> fault = "copystat"]
  ELSE IF fault = "mkdir"
    THEN [to |-> NoFolder, dirs |-> dirs0, raised |-> TRUE]
  ELSE IF fault = "copy"
    THEN [to |-> NoFolder, dirs |-> dirs0 \cup {Unassigned}, raised |-> TRUE]
  ELSE [to |-> Unassigned, dirs |-> dirs0 \cup {Unassigned},
        raised |-> fault = "copystat"]

\* ProcessPage, wrong: no except clause, an exception ends organize_files
ProcessPage_Aborts(fault) ==
  /\ pc = "running"
  /\ i < n_files
  /\ \E row \in {Row(image_files[i + 1])} :
     \E date \in {IF row.start THEN row.date ELSE None} :
     \E open \in {OpenMeeting(fault, row.start, date)} :
     \E copy \in {IF open.raised \/ SaveDebugRaises(fault)
                    THEN [to |-> NoFolder, dirs |-> open.dirs, raised |-> TRUE]
                    ELSE CopyPage(fault, open.folder, open.dirs)} :
       /\ (fault # "none") => copy.raised
       /\ current_meeting_folder' = open.folder
       /\ current_meeting_date' = open.date
       /\ meeting_starts_found' = open.found
       /\ dirs' = copy.dirs
       /\ files' = IF copy.to # NoFolder
                     THEN files \cup {<<copy.to, names[i + 1]>>} ELSE files
       /\ placed' = Append(placed, copy.to)
       /\ is_meeting_start' = row.start
       /\ parsed_date' = date
       /\ pc' = IF copy.raised THEN "idle" ELSE pc
  /\ i' = i + 1
  /\ UNCHANGED <<image_files, debug_mode, n_files, prev_placed, runs, call,
                 names, ocr>>

\* One iteration of the loop of organize_files, with its except clause:
\* whatever raises, the loop goes on with the next page.
ProcessPage(fault) ==
  /\ pc = "running"
  /\ i < n_files
  /\ \E row \in {Row(image_files[i + 1])} :
     \E date \in {IF row.start THEN row.date ELSE None} :
     \E open \in {OpenMeeting(fault, row.start, date)} :
     \E copy \in {IF open.raised \/ SaveDebugRaises(fault)
                    THEN [to |-> NoFolder, dirs |-> open.dirs, raised |-> TRUE]
                    ELSE CopyPage(fault, open.folder, open.dirs)} :
       /\ (fault # "none") => copy.raised
       /\ current_meeting_folder' = open.folder
       /\ current_meeting_date' = open.date
       /\ meeting_starts_found' = open.found
       /\ dirs' = copy.dirs
       /\ files' = IF copy.to # NoFolder
                     THEN files \cup {<<copy.to, names[i + 1]>>} ELSE files
       /\ placed' = Append(placed, copy.to)
       /\ is_meeting_start' = row.start
       /\ parsed_date' = date
  /\ i' = i + 1
  /\ UNCHANGED <<image_files, debug_mode, pc, n_files, prev_placed, runs,
                 call, names, ocr>>

\* the loop is over: the summary line, organize_files returns
FinishRun ==
  /\ pc = "running"
  /\ i = n_files
  /\ pc' = "idle"
  /\ UNCHANGED <<image_files, debug_mode, current_meeting_folder,
                 current_meeting_date, dirs, files, n_files, i,
                 meeting_starts_found, is_meeting_start, parsed_date, placed,
                 prev_placed, runs, call, names, ocr>>

Organize == \E max_files \in 0..MaxPages : StartRun(max_files)

\* file operations succeed
Next ==
  \/ Organize
  \/ ProcessPage("none")
  \/ FinishRun
  \/ Construct

Spec == Init /\ [][Next]_vars

PageFails == \E fault \in Faults \ {"none"} : ProcessPage(fault)

\* file operations may raise
NextFail ==
  \/ Organize
  \/ ProcessPage("none")
  \/ PageFails
  \/ FinishRun
  \/ Construct

\* the folders whose file operations may raise: a few short ones
MaxFailPages == 2

FailPages == {
  [ocr |-> "MEETING OF JANUARY 5, 1971 BOARD OF EDUCATION OKLAHOMA CITY",
   readable |-> TRUE],
  [ocr |-> "MEETING OF FEBRUARY 2, 1971 BOARD OF EDUCATION OKLAHOMA CITY",
   readable |-> TRUE],
  [ocr |-> "continued discussion of budget", readable |-> TRUE],
  [ocr |-> "", readable |-> FALSE] }

InitFail == Init /\ image_files \in SeqsUpTo(FailPages, MaxFailPages)

SpecFail == InitFail /\ [][NextFail]_vars

\* organize_files is sequential code: once called, its loop keeps taking
\* steps until it returns
SpecFailFair ==
  SpecFail /\ WF_vars(ProcessPage("none") \/ PageFails \/ FinishRun)

\* parse_date(text) called on its own, on an organizer that is not running
ParseDate(input) ==
  /\ pc = "idle"
  /\ ~call.called
  /\ call' = [form |-> input.form, year |-> input.year, month |-> input.month,
              day |-> input.day, text |-> input.text,
              date |-> parse_date(input.text), called |-> TRUE]
  /\ UNCHANGED <<image_files, debug_mode, current_meeting_folder,
                 current_meeting_date, dirs, files, pc, n_files, i,
                 meeting_starts_found, is_meeting_start, parsed_date, placed,
                 prev_placed, runs, names, ocr>>

InitDates == Init /\ image_files = <<>> /\ ~debug_mode

NextDates == \E input \in DateInputs : ParseDate(input)

\* the date extractor alone
SpecDates == InitDates /\ [][NextDates]_vars

(***************************************************************************)
(* The file list of organize_files.  A source folder is its image files in *)
(* the order of their names (a file is named by its place in that order),  *)
(* each with its extension in lower or in upper case.  Path.glob matches   *)
(* by the rules of the platform: case-sensitive on POSIX, case-insensitive *)
(* on Windows.                                                             *)
(***************************************************************************)
MaxFolderFiles == 2

Folders ==
  UNION {[1..n -> [upper_ext : BOOLEAN, page : FolderPages]] :
           n \in 0..MaxFolderFiles}

\* source_folder.glob(f'*{ext}') and glob(f'*{ext.upper()}'): the names
\* that match
glob(folder, upper_pattern, case_sensitive) ==
  SelectSeq([k \in 1..Len(folder) |-> k],
            LAMBDA k : case_sensitive => folder[k].upper_ext = upper_pattern)

RECURSIVE Insert(_, _)
Insert(x, s) ==
  IF s = <<>> THEN <<x>>
  ELSE IF x <= Head(s) THEN <<x>> \o s
  ELSE <<Head(s)>> \o Insert(x, Tail(s))

RECURSIVE sort(_)
\* list.sort()
sort(s) == IF s = <<>> THEN <<>> ELSE Insert(Head(s), sort(Tail(s)))

\* lines 257-264: both globs appended to image_files, then sorted
ListFiles(folder, case_sensitive) ==
  sort(glob(folder, FALSE, case_sensitive) \o glob(folder, TRUE, case_sensitive))

\* a new organizer on a source folder, on either platform
InitFolder ==
  /\ \E folder \in Folders, case_sensitive \in BOOLEAN :
       /\ names = ListFiles(folder, case_sensitive)
       /\ image_files = [k \in 1..Len(names) |-> folder[names[k]].page]
  /\ Constructed

\* the organizer on a folder listed by glob
SpecFolder == InitFolder /\ [][Next]_vars

(***************************************************************************)
(* create_summary_report: what it writes, from the output folder as it is  *)
(* when it is called.                                                      *)
(***************************************************************************)
\* len(list(folder.iterdir()))
files_count(folder) == Cardinality({f \in files : f[1] = folder})

meeting_folders == dirs \ {Unassigned, DebugFolder}

\* the report has no "Unassigned files" line
NoLine == -1

create_summary_report ==
  [total |-> Cardinality(meeting_folders),
   folders |-> [d \in meeting_folders |-> files_count(d)],
   unassigned |-> IF Unassigned \in dirs /\ files_count(Unassigned) > 0
                    THEN files_count(Unassigned) ELSE NoLine]

TypeOK ==
  /\ pc \in {"idle", "running"}
  /\ i \in 0..Len(image_files)
  /\ i <= n_files
  /\ n_files <= Len(image_files)
  /\ Len(placed) = i

(***************************************************************************)
(* The batch PDF OCR (fixed_pdf_ocr.py).  ocr.stats is self.stats; ocr.next *)
(* counts the PDF files whose process_single_pdf has begun; ocr.raised the *)
(* futures that hold an exception the main thread has not yet seen;        *)
(* ocr.thread[w] and ocr.main are the worker threads and the main thread   *)
(* inside the statement self.stats[key] += 1, which reads the counter and  *)
(* then stores the sum: nothing in the class holds a lock between the two. *)
(***************************************************************************)
organizer == <<image_files, debug_mode, current_meeting_folder,
               current_meeting_date, dirs, files, pc, n_files, i,
               meeting_starts_found, is_meeting_start, parsed_date, placed,
               prev_placed, runs, call, names>>

\* the counters process_single_pdf and its callers add to
Counters == {"already_ocr", "processed", "failed"}

\* how process_single_pdf ends: it has counted the file in one of the
\* counters, or an exception leaves it (backup copy or move failed)
Outcomes == Counters \cup {"raise"}

\* self.stats[key] += 1 in one step
Increment(stats, key) == [stats EXCEPT ![key] = @ + 1]

\* process_all_pdfs up to the choice of the mode; found is len(pdf_files)
process_all_pdfs(found, parallel) ==
  /\ ocr.mode = "none"
  /\ ocr' = [ocr EXCEPT !.stats.total_found = found,
                        !.mode = IF parallel /\ max_workers > 1 THEN "par"
                                 ELSE "seq",
                        !.at = IF found = 0 THEN "done" ELSE "running"]
  /\ UNCHANGED organizer

\* one pass of the loop of process_sequential
process_sequential(outcome) ==
  /\ ocr.mode = "seq" /\ ocr.at = "running"
  /\ ocr.next < ocr.stats.total_found
  /\ ocr' = [ocr EXCEPT !.next = @ + 1,
                        !.stats = Increment(@, IF outcome = "raise"
                                                 THEN "failed" ELSE outcome)]
  /\ UNCHANGED organizer

\* KeyboardInterrupt inside process_single_pdf: the loop is left
KeyboardInterrupt ==
  /\ ocr.mode = "seq" /\ ocr.at = "running"
  /\ ocr.next < ocr.stats.total_found
  /\ ocr' = [ocr EXCEPT !.at = "done", !.interrupted = TRUE]
  /\ UNCHANGED organizer

\* worker w runs process_single_pdf on the next submitted file up to its
\* counter statement, or up to the exception that ends the future
process_single_pdf(w, outcome) ==
  /\ ocr.mode = "par" /\ ocr.at = "running"
  /\ ocr.thread[w].at = "idle"
  /\ ocr.next < ocr.stats.total_found
  /\ ocr' = IF outcome = "raise"
              THEN [ocr EXCEPT !.next = @ + 1, !.raised = @ + 1]
              ELSE [ocr EXCEPT !.next = @ + 1,
                               !.thread[w] = [at |-> "load", key |-> outcome,
                                              tmp |-> 0]]
  /\ UNCHANGED organizer

\* worker w reads the counter
WorkerLoad(w) ==
  /\ ocr.thread[w].at = "load"
  /\ ocr' = [ocr EXCEPT !.thread[w].at = "store",
                        !.thread[w].tmp = ocr.stats[ocr.thread[w].key]]
  /\ UNCHANGED organizer

\* worker w stores the sum and returns
WorkerStore(w) ==
  /\ ocr.thread[w].at = "store"
  /\ ocr' = [ocr EXCEPT !.stats[ocr.thread[w].key] = ocr.thread[w].tmp + 1,
                        !.thread[w] = Idle]
  /\ UNCHANGED organizer

\* the loop of process_parallel gets a future whose result() raises, and
\* reads the counter
MainLoad ==
  /\ ocr.mode = "par" /\ ocr.at = "running"
  /\ ocr.main.at = "idle"
  /\ ocr.raised > 0
  /\ ocr' = [ocr EXCEPT !.raised = @ - 1,
                        !.main = [at |-> "store", key |-> "failed",
                                  tmp |-> ocr.stats.failed]]
  /\ UNCHANGED organizer

\* the loop of process_parallel stores the sum
MainStore ==
  /\ ocr.main.at = "store"
  /\ ocr' = [ocr EXCEPT !.stats.failed = ocr.main.tmp + 1, !.main = Idle]
  /\ UNCHANGED organizer

\* every file is done: the loop ends and process_all_pdfs prints its summary
Summary ==
  /\ ocr.at = "running"
  /\ ocr.next = ocr.stats.total_found
  /\ \A w \in Workers : ocr.thread[w].at = "idle"
  /\ ocr.main.at = "idle"
  /\ ocr.raised = 0
  /\ ocr' = [ocr EXCEPT !.at = "done"]
  /\ UNCHANGED organizer

InitOcr == Init /\ image_files = <<>> /\ ~debug_mode

NextOcr ==
  \/ \E found \in 0..MaxPdfs, parallel \in BOOLEAN :
       process_all_pdfs(found, parallel)
  \/ \E outcome \in Outcomes : process_sequential(outcome)
  \/ KeyboardInterrupt
  \/ \E w \in Workers, outcome \in Outcomes : process_single_pdf(w, outcome)
  \/ \E w \in Workers : WorkerLoad(w)
  \/ \E w \in Workers : WorkerStore(w)
  \/ MainLoad
  \/ MainStore
  \/ Summary

\* the batch PDF OCR alone
SpecOcr == InitOcr /\ [][NextOcr]_vars

(***************************************************************************)
(* Properties.                                                             *)
(***************************************************************************)
\* page k of the file list, as the loop body sees it
PageRow(k) == Row(image_files[k])

\* page k is classified a meeting start and its text gives a date
Opens(k) == PageRow(k).start /\ PageRow(k).date # None

KeyOf(k) == get_folder_name(PageRow(k).date)

\* the last page at or before k that opens a meeting (0: there is none)
LastOpen(k) ==
  IF \E j \in 1..k : Opens(j)
    THEN CHOOSE j \in 1..k : Opens(j) /\ \A m \in (j + 1)..k : ~Opens(m)
    ELSE 0

\* the pages of this run placed in group g, in the order visited
GroupPages(g) == SelectSeq([k \in 1..Len(placed) |-> k], LAMBDA k : placed[k] = g)

\* a step of the loop of organize_files
PageStep == i' = i + 1

\* the run is over
RunDone == pc = "idle" /\ runs > 0

LiteralPages == <<
  [ocr |-> "MEETING OF JANUARY 5, 1971 BOARD OF EDUCATION OKLAHOMA CITY",
   readable |-> TRUE],
  [ocr |-> "continued discussion of budget", readable |-> TRUE],
  [ocr |-> "MEETING OF FEBRUARY 2, 1971 BOARD OF EDUCATION OKLAHOMA CITY",
   readable |-> TRUE] >>

\* C1: every visited page that has a dated meeting start at or before it is
\* placed in the group keyed by the date of the last such page; the three
\* literal pages give 1971-01-05 = [page1, page2] and 1971-02-02 = [page3].
C1_GroupOfLastDatedStart ==
  /\ \A k \in 1..i : LastOpen(k) # 0 => placed[k] = KeyOf(LastOpen(k))
  /\ (image_files = LiteralPages /\ i = 3) =>
       /\ GroupPages("1971-01-05") = <<1, 2>>
       /\ GroupPages("1971-02-02") = <<3>>
       /\ \A k \in 1..3 : placed[k] \in {"1971-01-05", "1971-02-02"}

W_C1_LiteralRunDone == image_files = LiteralPages /\ i = 3 /\ RunDone

\* C2: every step of the loop appends the page to one group, the one open
\* once the page has been classified, or "unassigned" when none is open; at
\* the end of a run every page of the run has a group, and after the first
\* run on an empty output folder every page lies in exactly one folder.
C2_ExactlyOneGroup ==
  [][ /\ PageStep =>
           /\ placed' = Append(placed,
                          IF current_meeting_folder' # NoFolder
                            THEN current_meeting_folder' ELSE Unassigned)
           /\ <<placed'[i'], i'>> \in files'
      /\ (pc' = "idle" /\ runs' > 0) =>
           /\ Len(placed') = n_files'
           /\ \A k \in 1..n_files' : placed'[k] # NoFolder
      /\ (runs' = 1) =>
           \A k \in 1..Len(image_files') :
             Cardinality({f \in dirs' : <<f, k>> \in files'})
               = IF k <= i' THEN 1 ELSE 0 ]_vars

W_C2_AssignedAndUnassigned ==
  /\ RunDone /\ runs = 1 /\ i = MaxPages
  /\ placed[1] = Unassigned
  /\ placed[i] \notin {Unassigned, NoFolder}

\* C3: the classifier answers start exactly when the text holds two or more
\* distinct indicator phrases, or one and a date the extractor finds.
IndicatorPhrases == {meeting_indicators[k] : k \in 1..Len(meeting_indicators)}

DistinctIndicators(text) ==
  Cardinality({ph \in IndicatorPhrases : Contains(text, ph)})

BoundaryRule ==
  {[text |-> r.text, count |-> DistinctIndicators(r.text),
    hasDate |-> parse_date(r.text) # None] : r \in PageTable}

RuleOf(text) == CHOOSE r \in BoundaryRule : r.text = text

\* C3: is_meeting_start of the page visited last is count >= 2 or (hasDate
\* and count >= 1); two indicators suffice whatever the date, one indicator
\* without a date does not.
C3_BoundaryRule ==
  i > 0 =>
    LET r == RuleOf(PageRow(i).text)
    IN /\ is_meeting_start <=> (r.count >= 2 \/ (r.hasDate /\ r.count >= 1))
       /\ r.count >= 2 => is_meeting_start
       /\ (r.count = 1 /\ ~r.hasDate) => ~is_meeting_start

W_C3_AllCases ==
  /\ i = 3
  /\ \E k \in 1..3 : RuleOf(PageRow(k).text).count >= 2
                     /\ ~RuleOf(PageRow(k).text).hasDate
  /\ \E k \in 1..3 : RuleOf(PageRow(k).text).count = 1
                     /\ RuleOf(PageRow(k).text).hasDate
  /\ RuleOf(PageRow(3).text).count = 1 /\ ~RuleOf(PageRow(3).text).hasDate
  /\ ~is_meeting_start

\* C4: the extractor returns the date of the first pattern, in the order of
\* date_patterns, whose match gives a valid date; when the MEETING OF header
\* pattern gives one, that is the date returned, wherever a lower pattern
\* matches.
FirstValid(text) ==
  IF \E n \in 1..Len(date_patterns) : TryPattern(n, text) # None
    THEN TryPattern(CHOOSE n \in 1..Len(date_patterns) :
                      /\ TryPattern(n, text) # None
                      /\ \A m \in 1..(n - 1) : TryPattern(m, text) = None,
                    text)
    ELSE None

PatternOrder ==
  {[text |-> t, first |-> FirstValid(t), header |-> TryPattern(1, t),
    others |-> {TryPattern(n, t) : n \in 2..Len(date_patterns)} \ {None}]
     : t \in {r.text : r \in PageTable}}

OrderOf(text) == CHOOSE r \in PatternOrder : r.text = text

\* C4: the date parsed from a start page is the date of the first pattern
\* that gives one, and the header pattern's date whenever it gives one.
C4_FirstPatternWins ==
  (i > 0 /\ is_meeting_start) =>
    LET r == OrderOf(PageRow(i).text)
    IN /\ parsed_date = r.first
       /\ r.header # None => parsed_date = r.header

\* the header pattern and two lower patterns give three different dates
W_C4_HeaderAndLowerDiffer ==
  /\ i > 0 /\ is_meeting_start
  /\ LET r == OrderOf(PageRow(i).text)
     IN /\ r.header # None
        /\ Cardinality(r.others \ {r.header}) >= 2
        /\ parsed_date = r.header

\* C5: a page classified start whose text gives no date leaves the open
\* meeting as it was, creates no dated folder, and is placed in the group
\* that was open before it, or in "unassigned".
C5_UndatedStartKeepsGroup ==
  [][ (PageStep /\ is_meeting_start' /\ parsed_date' = None) =>
        /\ current_meeting_folder' = current_meeting_folder
        /\ current_meeting_date' = current_meeting_date
        /\ dirs' \subseteq dirs \cup {Unassigned}
        /\ meeting_starts_found' = meeting_starts_found
        /\ placed'[i'] = IF current_meeting_folder # NoFolder
                           THEN current_meeting_folder ELSE Unassigned ]_vars

W_C5_UndatedStartJoinsOpenGroup ==
  /\ i > 1 /\ is_meeting_start /\ parsed_date = None
  /\ DistinctIndicators(PageRow(i).text) >= 2
  /\ Opens(i - 1)
  /\ placed[i] = KeyOf(i - 1)

\* C6 (as claimed): a page is placed in "unassigned" exactly when no page at
\* or before it in the run opens a meeting.
C6_UnassignedIffNoneOpened ==
  \A k \in 1..i : (placed[k] = Unassigned) <=> (LastOpen(k) = 0)

\* C7 (as claimed): the pages of every dated group are one contiguous run
\* of the pages of the run.
C7_GroupsContiguous ==
  \A j, k, m \in 1..i :
    (j < k /\ k < m /\ placed[j] = placed[m] /\ placed[j] # Unassigned)
      => placed[k] = placed[j]

\* C7 (amended): within a run the group changes from one page to the next
\* only at a page that opens a meeting, and then to the group of its date;
\* so a closed group gets a page again only when a start page gives its
\* date.
C7_GroupChangesOnlyAtDatedStart ==
  \A k \in 2..i :
    placed[k] # placed[k - 1] => (Opens(k) /\ placed[k] = KeyOf(k))

W_C7_ClosedThenReopened ==
  /\ i = 3
  /\ Opens(2) /\ Opens(3)
  /\ placed[2] # placed[1]
  /\ placed[3] = placed[1]
  /\ placed[1] # Unassigned

\* C8: a start page whose date key already has a folder, left earlier in
\* the run for another group, goes on with that folder: no folder is
\* created, the pages already in it stay, the page is added to it and it is
\* the open group again.
C8_SameKeyExtendsGroup ==
  [][ (PageStep /\ is_meeting_start' /\ parsed_date' # None
         /\ get_folder_name(parsed_date') \in dirs
         /\ get_folder_name(parsed_date') # current_meeting_folder
         /\ \E k \in 1..i : placed[k] = get_folder_name(parsed_date')) =>
        /\ dirs' = dirs
        /\ files' = files \cup {<<get_folder_name(parsed_date'), i'>>}
        /\ current_meeting_folder' = get_folder_name(parsed_date')
        /\ placed'[i'] = get_folder_name(parsed_date') ]_vars

W_C8_LaterRunInSameGroup ==
  /\ i = 3
  /\ placed[1] = "1971-01-05" /\ placed[2] = "1971-02-02"
  /\ placed[3] = "1971-01-05"
  /\ {<<"1971-01-05", 1>>, <<"1971-01-05", 3>>} \subseteq files
  /\ Cardinality({f \in dirs : f \notin {DebugFolder, Unassigned}}) = 2

\* C9 (as claimed): a run over the same pages as the run before it places
\* every page as that run did.
C9_RerunSameAssignment ==
  (RunDone /\ runs >= 2 /\ Len(prev_placed) = Len(placed)) =>
    placed = prev_placed

\* C10 (as claimed): every run of organize_files starts with no open
\* meeting, and only a step of the loop (or the construction of an
\* organizer) changes the open meeting.
C10_NoOpenGroupAtRunStart ==
  [][ /\ (pc = "idle" /\ pc' = "running") =>
           /\ current_meeting_folder' = NoFolder
           /\ current_meeting_date' = None
      /\ (\/ current_meeting_folder' # current_meeting_folder
          \/ current_meeting_date' # current_meeting_date) =>
           (PageStep \/ (pc = "idle" /\ pc' = "idle")) ]_vars

(***************************************************************************)
(* The date extractor called on its own (SpecDates).                       *)
(***************************************************************************)
\* month, day and year lie in the bounds the extractor checks
InBounds(year, month, day) ==
  /\ 1 <= month /\ month <= 12
  /\ 1 <= day /\ day <= 31
  /\ 1900 <= year /\ year <= 2100

\* the month of the year has no such day
NoSuchDay(year, month, day) ==
  \/ month \in {4, 6, 9, 11} /\ day = 31
  \/ month = 2 /\ day >= 30
  \/ month = 2 /\ day = 29 /\ (year % 4 # 0 \/ (year % 100 = 0 /\ year % 400 # 0))

\* the triple that was written out
Triple == <<call.year, call.month, call.day>>

\* C11: a date within the bounds, written "Month Day, Year" (the month name
\* capitalised or in upper case), is extracted as the same year, month and
\* day.
C11_RoundTrip ==
  (/\ call.called
   /\ call.form \in {MonthDayYear, MonthDayYearCap}
   /\ InBounds(call.year, call.month, call.day))
    => call.date = Triple

\* C12: a date the extractor returns has its month in 1..12, its day in
\* 1..31 and its year in 1900..2100; numbers written outside these bounds
\* are never returned.
C12_ReturnedDateInBounds ==
  call.called =>
    /\ call.date # None => InBounds(call.date[1], call.date[2], call.date[3])
    /\ (call.form # Literal /\ ~InBounds(call.year, call.month, call.day))
         => call.date # Triple

\* a match with the year out of bounds is passed over and a later pattern
\* gives the date
W_C12_OutOfBoundsPassedOver ==
  /\ call.called
  /\ call.text = "MEETING OF MAY 5, 2101 BOARD OF EDUCATION JUNE 7, 1971"
  /\ call.date = <<1971, 6, 7>>

\* C13 as stated: day 30 of month 2, within the bounds, is returned as
\* written.
C13_ImpossibleDayAccepted ==
  (/\ call.called
   /\ call.form \in {MonthDayYear, Slashed}
   /\ call.month = 2 /\ call.day = 30
   /\ 1900 <= call.year /\ call.year <= 2100)
    => call.date = <<call.year, 2, 30>>

\* C13: a date written within the bounds is returned exactly when the
\* calendar has that day; a day the month does not have (day 30 of month 2)
\* gives no date.
C13_CalendarChecked ==
  (/\ call.called
   /\ call.form \in {MonthDayYear, Slashed}
   /\ InBounds(call.year, call.month, call.day))
    => call.date = IF NoSuchDay(call.year, call.month, call.day)
                     THEN None ELSE Triple

W_C13_FebruaryThirtieth ==
  /\ call.called
  /\ call.text = "FEBRUARY 30, 1971"
  /\ call.date = None

\* C14: a month name, full or abbreviated, in upper case, lower case or
\* capitalised, gives the number of its month.
C14_CaseInsensitiveNames ==
  (/\ call.called
   /\ call.form \in NameForms
   /\ call.form.order = "MDY"
   /\ call.day = 5)
    => (call.date # None /\ call.date[2] = call.month)

\* C15: a date within the bounds written YYYY-MM-DD is extracted as year,
\* month, day.
C15_YearMonthDay ==
  (/\ call.called
   /\ call.form = Dashed
   /\ InBounds(call.year, call.month, call.day)
   /\ ~NoSuchDay(call.year, call.month, call.day))
    => call.date = Triple

\* C16: a date written day, month name, year ("5 January 1971", the name
\* capitalised or in upper case) is extracted as that date.
C16_DayMonthYear ==
  (/\ call.called
   /\ call.form.order = "DMY"
   /\ ~call.form.abbr
   /\ call.form.case \in {"capitalised", "upper"}
   /\ call.day = 5)
    => call.date = Triple

\* C17 as stated: a/b/YYYY within the bounds is returned as year YYYY,
\* month a, day b.
C17_MonthFirstWhenInBounds ==
  (/\ call.called
   /\ call.form = Slashed
   /\ InBounds(call.year, call.month, call.day))
    => call.date = Triple

\* C17: a/b/YYYY is read with a as the month and b as the day: it gives year
\* YYYY, month a, day b when that is within the bounds and a day of the
\* calendar, and no date otherwise; it is never read day first.
C17_MonthFirstOnly ==
  (call.called /\ call.form = Slashed) =>
    /\ call.date \in {None, Triple}
    /\ call.date = Triple <=>
         (/\ InBounds(call.year, call.month, call.day)
          /\ ~NoSuchDay(call.year, call.month, call.day))
    /\ call.date # <<call.year, call.day, call.month>> \/ call.day = call.month

W_C17_DayFirstRejected ==
  /\ call.called
  /\ call.text = "25/12/1971"
  /\ call.date = None

\* C18: the extractor raises for no text; a match with an unknown month
\* name, with values out of bounds or with a day the calendar does not have
\* is passed over and the next pattern is tried; the result is none exactly
\* when no pattern gives a date.
C18_NeverRaises ==
  call.called =>
    /\ call.date # ValueError
    /\ call.date = None <=>
         \A n \in 1..Len(date_patterns) : TryPattern(n, call.text) = None
    /\ call.text \in {"PAGE 3 1971 REVISED 1/5/1971",
                      "FEBRUARY 30, 1971 REVISED 1/5/1971"}
         => call.date = <<1971, 1, 5>>

W_C18_RejectedThenNextPattern ==
  /\ call.called
  /\ call.text = "FEBRUARY 30, 1971 REVISED 1/5/1971"
  /\ call.date = <<1971, 1, 5>>

(***************************************************************************)
(* Failures (Spec: the text of a page cannot be extracted; SpecFail: file  *)
(* operations raise).                                                      *)
(***************************************************************************)
\* the page the loop visits next gives no text
NextPageEmpty == PageRow(i + 1).text = ""

\* C19: a page whose text cannot be extracted, or is empty, is not a meeting
\* start and has no date; it is placed in the open meeting's folder, or in
\* "unassigned" when none is open, and the open meeting stays as it was.
C19_EmptyPageJoinsOpenGroup ==
  [][(PageStep /\ NextPageEmpty) =>
       /\ ~is_meeting_start'
       /\ parsed_date' = None
       /\ current_meeting_folder' = current_meeting_folder
       /\ current_meeting_date' = current_meeting_date
       /\ meeting_starts_found' = meeting_starts_found
       /\ placed'[i'] = IF current_meeting_folder = NoFolder
                          THEN Unassigned ELSE current_meeting_folder]_vars

\* an unreadable page has been placed in the folder of the meeting opened
\* by the page before it, in a run that began with an unreadable page
W_C19_UnreadableInBothGroups ==
  /\ i = 3
  /\ ~image_files[1].readable
  /\ ~image_files[3].readable
  /\ placed[1] = Unassigned
  /\ placed[2] = "1971-01-05"
  /\ placed[3] = "1971-01-05"
  /\ current_meeting_folder = "1971-01-05"

\* C20: a page on which a file operation raises does not end the run: the
\* loop goes on to the next page whatever happened on this one, it returns
\* only after the last page, and every run reaches that point.
C20_RunReachesEnd ==
  /\ [][(pc = "running" /\ i < n_files) => (pc' = "running" /\ i' = i + 1)]_vars
  /\ [][(pc = "running" /\ pc' = "idle") => (i = n_files /\ Len(placed) = n_files)]_vars
  /\ (pc = "running") ~> (pc = "idle" /\ i = n_files)

\* a run is over in which the first page was not copied because an
\* operation raised, and the second page was copied
W_C20_FailedPageThenCopiedPage ==
  /\ pc = "idle"
  /\ n_files = 2
  /\ i = 2
  /\ placed[1] = NoFolder
  /\ placed[2] # NoFolder

(***************************************************************************)
(* The order of the pages, the report and the keys.                        *)
(***************************************************************************)
\* C21: the pages visited so far in a run were visited in strictly
\* increasing order of their names: no file twice, none before a file with
\* a smaller name.
C21_StrictlyIncreasingNames ==
  \A j, k \in 1..i : j < k => names[j] < names[k]

\* C22: the folder of a page is fixed when the page is visited: later pages
\* change neither the folders of the pages before them nor the files
\* copied; and two runs over the same file list that both begin with no
\* meeting open, stopped after different numbers of pages (max_files),
\* place the pages they both visit in the same folders.
C22_PrefixAssignedAlike ==
  /\ [][PageStep => (SubSeq(placed', 1, i) = placed /\ files \subseteq files')]_vars
  /\ [][(/\ PageStep
         /\ runs = 2
         /\ i < Len(prev_placed)
         /\ SubSeq(prev_placed, 1, i) = placed
         /\ (i = 0 => current_meeting_folder = NoFolder))
          => placed'[i'] = prev_placed[i']]_vars

\* a full run of three pages, then a run of a new organizer stopped after
\* two pages, the second of which opens a meeting
W_C22_StoppedAfterTwo ==
  /\ runs = 2
  /\ pc = "idle"
  /\ Len(prev_placed) = 3
  /\ placed = <<Unassigned, "1971-01-05">>
  /\ SubSeq(prev_placed, 1, 2) = placed

\* C23: after a run over at least one page in which no page is a meeting
\* start with a date, every page is in "unassigned", there is no dated
\* folder, and the report gives as the number of unassigned files the number
\* of pages of the run.
C23_AllUnassignedCounted ==
  (/\ RunDone
   /\ n_files > 0
   /\ \A k \in 1..n_files : ~Opens(k))
    => /\ \A k \in 1..n_files : placed[k] = Unassigned
       /\ meeting_folders = {}
       /\ create_summary_report.unassigned = n_files

\* the dates the pages give
PageDates == {r.date : r \in PageTable} \ {None}

\* C24: the folder of every page placed is "unassigned" or the YYYY-MM-DD
\* name of the date of a meeting start visited in this run at or before the
\* page; different dates have different names, and no date is named
\* "unassigned".
C24_KeysOfThisRun ==
  /\ \A k \in 1..i :
       \/ placed[k] = Unassigned
       \/ \E j \in 1..k : Opens(j) /\ placed[k] = KeyOf(j)
  /\ \A d, e \in PageDates : d # e => get_folder_name(d) # get_folder_name(e)
  /\ \A d \in PageDates :
       /\ get_folder_name(d) # Unassigned
       /\ Len(get_folder_name(d)) = 10

(***************************************************************************)
(* The classifier inside the organizer.                                    *)
(***************************************************************************)
\* the texts that are one phrase of meeting_indicators and nothing else
SinglePhrases == {meeting_indicators[k] : k \in 1..Len(meeting_indicators)}

\* C25: a page whose text is one phrase of meeting_indicators, without a
\* date, is classified not a meeting start.
C25_SinglePhraseNotStart ==
  (/\ i > 0
   /\ PageRow(i).text \in SinglePhrases
   /\ PageRow(i).date = None)
    => ~is_meeting_start

\* C26: in every state, also after a page on which an operation raised,
\* either no meeting is open (folder and date both unset) or the open
\* folder is named after current_meeting_date and exists.
C26_OpenGroupFieldsAgree ==
  \/ current_meeting_folder = NoFolder /\ current_meeting_date = None
  \/ /\ current_meeting_date # None
     /\ current_meeting_folder = get_folder_name(current_meeting_date)
     /\ current_meeting_folder \in dirs

\* C27: a page classified a meeting start with exactly one indicator has a
\* date for the organizer too and opens the meeting of that date; a meeting
\* start for which the organizer finds no date has at least two indicators.
C27_UndatedStartHasTwoIndicators ==
  [][PageStep =>
       /\ (is_meeting_start' /\ PageRow(i + 1).count = 1) =>
            /\ parsed_date' # None
            /\ current_meeting_date' = parsed_date'
            /\ current_meeting_folder' = get_folder_name(parsed_date')
            /\ current_meeting_folder' \in dirs'
       /\ (is_meeting_start' /\ parsed_date' = None) =>
            PageRow(i + 1).count >= 2]_vars

\* the page with the one indicator "MEETING OF" and a date has opened the
\* meeting of that date
W_C27_OneIndicatorAndDate ==
  /\ i > 0
  /\ PageRow(i).count = 1
  /\ is_meeting_start
  /\ parsed_date = <<1971, 3, 3>>
  /\ current_meeting_folder = "1971-03-03"

\* C28: what a page does depends on the open meeting and the text of the
\* page alone: the open meeting after the page and the folder of the page
\* are one function of the two, whatever the position of the page, the
\* pages before it, the count of meeting starts and the debug setting.
C28_OnlyOpenGroupCarries ==
  [][PageStep =>
       LET row == PageRow(i + 1)
           opens == row.start /\ row.date # None
       IN /\ current_meeting_folder' =
               IF opens THEN get_folder_name(row.date) ELSE current_meeting_folder
          /\ current_meeting_date' =
               IF opens THEN row.date ELSE current_meeting_date
          /\ placed'[i'] = IF current_meeting_folder' = NoFolder
                             THEN Unassigned ELSE current_meeting_folder']_vars

\* the same text on pages 2 and 3, met with the same meeting open, in debug
\* mode: both pages are in the folder of that meeting
W_C28_SameTextSameGroup ==
  /\ i = 3
  /\ debug_mode
  /\ image_files[2] = image_files[3]
  /\ meeting_starts_found = 1
  /\ placed = <<"1971-01-05", "1971-01-05", "1971-01-05">>

(***************************************************************************)
(* The leftmost match (SpecDates).                                         *)
(***************************************************************************)
\* a date that parses when it stands alone, and a text in which it stands
\* after a match of the same pattern that gives no date
LookAlikes == {
  [valid |-> "JANUARY 5, 1971", text |-> "PAGE 3 1971 JANUARY 5, 1971"],
  [valid |-> "MAY 5, 1971", text |-> "MAY 32, 1971 AND MAY 5, 1971"],
  [valid |-> "1/5/1971", text |-> "13/5/1971 AND 1/5/1971"] }

\* C29: of each pattern only the leftmost match is examined: a date that
\* parses when it stands alone is not found when a match of the same pattern
\* with an unknown month name or a value out of bounds stands before it.
C29_LeftmostMatchOnly ==
  call.called =>
    \A p \in LookAlikes :
      /\ call.text = p.valid => call.date # None
      /\ call.text = p.text => call.date = None

W_C29_DateAfterLookAlike ==
  /\ call.called
  /\ call.text = "PAGE 3 1971 JANUARY 5, 1971"
  /\ call.date = None

(***************************************************************************)
(* The counters of the batch PDF OCR (SpecOcr).                            *)
(***************************************************************************)
Counted == ocr.stats.already_ocr + ocr.stats.processed + ocr.stats.failed

\* C30: when process_all_pdfs has finished without an interruption by the
\* user, every found PDF is counted once: already_ocr + processed + failed
\* equals total_found, in sequential and in parallel processing.
C30_EveryPdfCountedOnce ==
  (ocr.at = "done" /\ ~ocr.interrupted) => Counted = ocr.stats.total_found

====
